---- MODULE Spec2Model ----
(***************************************************************************)
(* Token lifecycle of ConstantContactClient (src/OLD/cc_client.py).        *)
(*                                                                         *)
(* A caller runs one resource-API operation at a time.  An operation is    *)
(* cut into steps at the places where the code reads the clock or blocks   *)
(* on the network:                                                         *)
(*   ApiCall / RetryHeaders  _headers(): the clock read of _ensure_token   *)
(*                           (line 107), then either the POST to the token *)
(*                           endpoint (line 90) or the resource request    *)
(*                           with the headers of lines 113-117;            *)
(*   TokenResponse           lines 94-103 on the token endpoint's answer   *)
(*                           (clock read at line 99), and what follows it  *)
(*                           up to the next clock read or network wait;    *)
(*   ApiResponse             the resource API's answer (lines 122-127).    *)
(* Tick lets the clock advance between any two steps.                      *)
(*                                                                         *)
(* Time is counted in tenths of a second, so that 0.9 * expires_in is an   *)
(* integer for every whole number of seconds.                              *)
(*                                                                         *)
(* The authorization server and the resource API are the environment:      *)
(* every answer they can give is a nondeterministic input of the step that *)
(* receives it.  Access tokens and rotated refresh tokens are numbered in  *)
(* the order the client receives them (0 is Python's None); a 200 answer   *)
(* always carries an access_token.                                         *)
(*                                                                         *)
(* The legacy script src/OLD/main.py is not part of the model: it does not *)
(* compile (IndentationError at line 59, the doubled __main__ guard), so   *)
(* its get_access_token never runs.                                        *)
(***************************************************************************)
EXTENDS Integers, Sequences, FiniteSets, TLC

VARIABLES
    client_id,      \* self.client_id
    refresh_token,  \* self.refresh_token
    env_path,       \* self.env_path (None or a path)
    access_token,   \* self.access_token (None or a token)
    access_expiry,  \* self.access_expiry, tenths of a second
    store,          \* the file at env_path: NoFile or its lines
    now,            \* time.time(), tenths of a second
    pc,             \* per caller: where it is in its operation
    op,             \* per caller: the operation it runs
    attempt,        \* per caller: 1 = request of the first send, 2 = the re-send
    why,            \* per caller: who called _refresh_access_token
    submitted,      \* per caller: refresh token in its in-flight token request
    req,            \* per caller: the resource request it last sent
    outcome,        \* per caller: how its last operation ended
    stats,          \* per caller: what its current/last operation has done
    granted,        \* access token of the most recent 200 answer of the token endpoint
    exchanges,      \* number of requests sent to the token endpoint
    calls,          \* number of operations started
    saved           \* direct calls of _save_rotated_refresh_token: how many, their
                    \* arguments, the last result, the store before and after the first

vars == <<client_id, refresh_token, env_path, access_token, access_expiry, store,
          now, pc, op, attempt, why, submitted, req, outcome, stats, granted,
          exchanges, calls, saved>>

----------------------------------------------------------------------------
(* Bounds of the model *)

MaxTime == 12
MaxCalls == 2
MaxLines == 3
MaxSaves == 2

(* Program constants *)

DefaultExpiresIn == 3600
MarginTenths == 9

None == 0
\* not a sequence of lines of any file: its one entry has a key no line has
NoFile == <<[key |-> "no file", val |-> 0]>>

Callers == {"c1", "c2"}
MainCaller == "c1"
Operations == {"list_contact_lists", "create_list", "create_contact", "upsert_contact"}

\* expires_in values the server declares, in seconds (None: field omitted)
Lifetimes == {0, 1, 1800}
\* amounts by which the clock is seen to advance, in tenths
TickSteps == {3}
\* statuses of the token endpoint and of the resource API
ApiStatuses == {200, 401, 500}

\* Names bound at module level in cc_client.py.
ImportedNames == {"os", "json", "time", "argparse", "List", "Optional", "Dict", "Any", "requests"}
PathNameBound == "Path" \in ImportedNames

\* Lines of the persisted store: a line is its key prefix (up to and including '=')
\* and the rest; a line that starts with neither recognized prefix has key "".
RefreshLine(v) == [key |-> "CC_REFRESH_TOKEN=", val |-> v]
ClientLine(v) == [key |-> "CC_CLIENT_ID=", val |-> v]
OtherLine == [key |-> "", val |-> 0]
\* OtherLine is the empty line; TextLine(v) is a non-empty line without a recognized key
BlankLine == OtherLine
TextLine(v) == [key |-> "", val |-> v]

ClientIds == {7}
InitialRefreshTokens == {1}

InitialStores ==
    { NoFile,
      <<OtherLine, RefreshLine(1)>> }

----------------------------------------------------------------------------
(* _save_rotated_refresh_token, lines 60-81: the lines written to the store *)

RECURSIVE FirstRefreshLine(_, _)
FirstRefreshLine(lines, i) ==
    IF i > Len(lines) THEN 0
    ELSE IF lines[i].key = "CC_REFRESH_TOKEN=" THEN i
    ELSE FirstRefreshLine(lines, i + 1)

RewrittenLines(old, new_refresh, cid) ==
    LET lines == IF old = NoFile THEN <<>> ELSE old
        i == FirstRefreshLine(lines, 1)
        replaced == IF i # 0
                    THEN [lines EXCEPT ![i] = RefreshLine(new_refresh)]
                    ELSE Append(lines, RefreshLine(new_refresh))
    IN  IF cid # None /\ ~(\E k \in 1..Len(replaced) : replaced[k].key = "CC_CLIENT_ID=")
        THEN Append(replaced, ClientLine(cid))
        ELSE replaced

\* lines 80-81 then 64-65: "\n".join(lines) is written, and the next read
\* splits it with splitlines(), which yields no last line for a final "\n"
FileLines(written) ==
    IF Len(written) > 0 /\ written[Len(written)] = BlankLine
    THEN SubSeq(written, 1, Len(written) - 1)
    ELSE written

\* the lines of the store after the write of lines 62-81
SavedStore(old, new_refresh, cid) == FileLines(RewrittenLines(old, new_refresh, cid))

----------------------------------------------------------------------------
(* Answers of the token endpoint *)

\* The next access token / refresh token the server hands out: a value the
\* client has not seen before.
FreshAccessToken == granted + 1
FreshRefreshToken == refresh_token + 1

TokenAnswers ==
    [status : {400}, access_token : {None}, expires_in : {None}, refresh_token : {None}]
    \cup
    [status : {200}, access_token : {FreshAccessToken},
     expires_in : Lifetimes \cup {None}, refresh_token : {None, FreshRefreshToken}]

----------------------------------------------------------------------------
(* The client *)

NoStats == [sent |-> 0, xch |-> 0, forced |-> 0, got401 |-> 0, saves |-> 0]
NoSaves == [n |-> 0, args |-> <<>>, result |-> "none", before |-> NoFile, once |-> NoFile]
NoReq == [endpoint |-> "none", bearer |-> None, latest |-> None, expired |-> FALSE]

Init ==
    /\ client_id \in ClientIds
    /\ refresh_token \in InitialRefreshTokens
    /\ env_path \in {None, 1}
    /\ store \in InitialStores
    /\ env_path = None => store = NoFile
    /\ access_token = None
    /\ access_expiry = 0
    /\ now = 0
    /\ pc = [c \in Callers |-> "idle"]
    /\ op = [c \in Callers |-> "none"]
    /\ attempt = [c \in Callers |-> 1]
    /\ why = [c \in Callers |-> "none"]
    /\ submitted = [c \in Callers |-> None]
    /\ req = [c \in Callers |-> NoReq]
    /\ outcome = [c \in Callers |-> "none"]
    /\ stats = [c \in Callers |-> NoStats]
    /\ granted = None
    /\ exchanges = 0
    /\ calls = 0
    /\ saved = NoSaves

\* Variants of NeedsRefresh with a slip in the condition of line 107
NeedsRefreshOnlyWhenAbsent(token, expiry, t) == token = None
NeedsRefreshAlways(token, expiry, t) == TRUE

\* _ensure_token, line 107: the cached token is refreshed when this holds
NeedsRefresh(token, expiry, t) == token = None \/ t > expiry

\* lines 85-93: the POST to the token endpoint leaves with the current refresh token
SendTokenRequest(c, who, st) ==
    /\ pc' = [pc EXCEPT ![c] = "token_wait"]
    /\ why' = [why EXCEPT ![c] = who]
    /\ submitted' = [submitted EXCEPT ![c] = refresh_token]
    /\ exchanges' = exchanges + 1
    /\ stats' = [stats EXCEPT ![c] =
                    [st EXCEPT !.xch = @ + 1,
                               !.forced = IF who = "forced" THEN @ + 1 ELSE @]]

\* lines 113-117 and the request of line 121/125: the resource request leaves
\* with the Authorization header built from the access token `token`
SendApiRequest(c, o, token, expiry, latest, st) ==
    /\ pc' = [pc EXCEPT ![c] = "api_wait"]
    /\ req' = [req EXCEPT ![c] = [endpoint |-> o, bearer |-> token,
                                  latest |-> latest, expired |-> now > expiry]]
    /\ stats' = [stats EXCEPT ![c] = [st EXCEPT !.sent = @ + 1]]

\* _headers(), lines 111-117, up to the network wait it runs into
Headers(c, o, st) ==
    IF NeedsRefresh(access_token, access_expiry, now)
    THEN /\ SendTokenRequest(c, "ensure", st)
         /\ UNCHANGED req
    ELSE /\ SendApiRequest(c, o, access_token, access_expiry, granted, st)
         /\ UNCHANGED <<why, submitted, exchanges>>

\* list_contact_lists / create_list / create_contact / upsert_contact:
\* the first _headers() of the operation (lines 121, 133, 156, 180)
ApiCall(c, o) ==
    /\ pc[c] = "idle"
    /\ calls < MaxCalls
    /\ calls' = calls + 1
    /\ op' = [op EXCEPT ![c] = o]
    /\ attempt' = [attempt EXCEPT ![c] = 1]
    /\ outcome' = [outcome EXCEPT ![c] = "running"]
    /\ Headers(c, o, NoStats)
    /\ UNCHANGED <<client_id, refresh_token, env_path, access_token, access_expiry,
                   store, now, granted, saved>>

\* the _headers() of the re-send (lines 125, 136, 159, 183)
RetryHeaders(c) ==
    /\ pc[c] = "retry_headers"
    /\ attempt' = [attempt EXCEPT ![c] = 2]
    /\ Headers(c, op[c], stats[c])
    /\ UNCHANGED <<client_id, refresh_token, env_path, access_token, access_expiry,
                   store, now, granted, op, outcome, calls, saved>>

Raise(c, error) ==
    /\ pc' = [pc EXCEPT ![c] = "idle"]
    /\ outcome' = [outcome EXCEPT ![c] = error]
    /\ op' = [op EXCEPT ![c] = "none"]

\* Variant of ExpiresAt without the margin: the full declared lifetime
ExpiresAtFullLifetime(t, expires_in) ==
    t + (IF expires_in = None THEN DefaultExpiresIn ELSE expires_in) * 10

\* line 99: access_expiry for a token received at time t with the declared
\* lifetime expires_in (seconds, None when the field is absent), in tenths
ExpiresAt(t, expires_in) ==
    t + (IF expires_in = None THEN DefaultExpiresIn ELSE expires_in) * MarginTenths

\* Variant of Rotates that saves whatever the answer holds
RotatesAlways(new_refresh) == TRUE

\* line 102: `if new_refresh:`
Rotates(new_refresh) == new_refresh # None

\* Variant of TokenFailure that drops the cached token before raising
TokenFailureClearsCache(c) ==
    /\ Raise(c, "RuntimeError")
    /\ access_token' = None
    /\ access_expiry' = 0
    /\ UNCHANGED <<refresh_token, store, granted, req, stats, attempt>>

\* Variant of TokenFailure that sends the exchange again instead of raising
TokenFailureRetries(c) ==
    /\ pc' = pc
    /\ UNCHANGED <<outcome, op, refresh_token, access_token, access_expiry, store,
                   granted, req, stats, attempt>>

\* Variant of TokenFailure that forgets the rejected refresh token
TokenFailureForgetsRefreshToken(c) ==
    /\ Raise(c, "RuntimeError")
    /\ refresh_token' = None
    /\ UNCHANGED <<access_token, access_expiry, store, granted, req, stats, attempt>>

\* lines 94-95: a non-200 answer raises before anything is assigned
TokenFailure(c) ==
    /\ Raise(c, "RuntimeError")
    /\ UNCHANGED <<refresh_token, access_token, access_expiry, store, granted,
                   req, stats, attempt>>

\* Variant of TokenSuccess that keeps the old refresh token in memory when the
\* store cannot be written
TokenSuccessSavesAfterWrite(c, ans) ==
    LET saving == Rotates(ans.refresh_token)
        persisting == saving /\ env_path # None
        st == [stats[c] EXCEPT !.saves = IF saving THEN @ + 1 ELSE @]
    IN  /\ access_token' = ans.access_token
        /\ access_expiry' = ExpiresAt(now, ans.expires_in)
        /\ granted' = ans.access_token
        /\ IF persisting /\ ~PathNameBound
           THEN /\ Raise(c, "NameError")
                /\ stats' = [stats EXCEPT ![c] = st]
                /\ UNCHANGED <<refresh_token, store, req, attempt>>
           ELSE /\ refresh_token' = IF saving THEN ans.refresh_token ELSE refresh_token
                /\ store' = IF persisting
                            THEN SavedStore(store, ans.refresh_token, client_id)
                            ELSE store
                /\ UNCHANGED <<outcome, attempt, op>>
                /\ IF why[c] = "ensure"
                   THEN SendApiRequest(c, op[c], access_token', access_expiry', granted', st)
                   ELSE /\ pc' = [pc EXCEPT ![c] = "retry_headers"]
                        /\ stats' = [stats EXCEPT ![c] = st]
                        /\ UNCHANGED req

\* lines 96-103 on a 200 answer, then the rest of the caller's step
TokenSuccess(c, ans) ==
    LET saving == Rotates(ans.refresh_token)
        persisting == saving /\ env_path # None        \* line 58
        st == [stats[c] EXCEPT !.saves = IF saving THEN @ + 1 ELSE @]
    IN  /\ access_token' = ans.access_token
        /\ access_expiry' = ExpiresAt(now, ans.expires_in)
        /\ granted' = ans.access_token
        /\ refresh_token' = IF saving THEN ans.refresh_token ELSE refresh_token   \* line 57
        /\ IF persisting /\ ~PathNameBound
           THEN \* line 60: NameError, name 'Path' is not defined
                /\ Raise(c, "NameError")
                /\ stats' = [stats EXCEPT ![c] = st]
                /\ UNCHANGED <<store, req, attempt>>
           ELSE /\ store' = IF persisting
                            THEN SavedStore(store, ans.refresh_token, client_id)
                            ELSE store
                /\ UNCHANGED <<outcome, attempt, op>>
                /\ IF why[c] = "ensure"
                   THEN \* back in _headers, line 113
                        SendApiRequest(c, op[c], access_token', access_expiry', granted', st)
                   ELSE \* back in the operation, before the _headers() of the re-send
                        /\ pc' = [pc EXCEPT ![c] = "retry_headers"]
                        /\ stats' = [stats EXCEPT ![c] = st]
                        /\ UNCHANGED req

\* _refresh_access_token from line 94 on: the token endpoint has answered
TokenResponse(c, ans) ==
    /\ pc[c] = "token_wait"
    /\ submitted' = [submitted EXCEPT ![c] = None]
    /\ IF ans.status # 200 THEN TokenFailure(c) ELSE TokenSuccess(c, ans)
    /\ UNCHANGED <<client_id, env_path, now, why, exchanges, calls, saved>>

\* lines 122-127 (134-138, 157-161, 181-185): the resource API has answered
ApiResponse(c, status) ==
    /\ pc[c] = "api_wait"
    /\ IF status = 401 /\ attempt[c] = 1
       THEN \* try one refresh then retry
            /\ SendTokenRequest(c, "forced", [stats[c] EXCEPT !.got401 = @ + 1])
            /\ UNCHANGED <<outcome, op, req>>
       ELSE \* raise_for_status, return r.json()
            /\ Raise(c, IF status >= 400 THEN "HTTPError" ELSE "ok")
            /\ stats' = [stats EXCEPT ![c].got401 = IF status = 401 THEN @ + 1 ELSE @]
            /\ req' = [req EXCEPT ![c] = NoReq]
            /\ UNCHANGED <<why, submitted, exchanges>>
    /\ UNCHANGED <<client_id, refresh_token, env_path, access_token, access_expiry,
                   store, now, attempt, granted, calls, saved>>

\* time passes
Tick ==
    /\ \E d \in TickSteps : now + d <= MaxTime /\ now' = now + d
    /\ UNCHANGED <<client_id, refresh_token, env_path, access_token, access_expiry,
                   store, pc, op, attempt, why, submitted, req, outcome, stats,
                   granted, exchanges, calls, saved>>

Step(c) ==
    \/ \E o \in Operations : ApiCall(c, o)
    \/ RetryHeaders(c)
    \/ \E ans \in TokenAnswers : TokenResponse(c, ans)
    \/ \E status \in ApiStatuses : ApiResponse(c, status)

\* one caller at a time: the single-threaded, blocking use of the client
Next == Step(MainCaller) \/ Tick

Spec == Init /\ [][Next]_vars

----------------------------------------------------------------------------
(* _save_rotated_refresh_token called on its own, on any small store *)

RECURSIVE SeqsUpTo(_, _)
SeqsUpTo(S, n) ==
    IF n = 0 THEN {<<>>}
    ELSE LET shorter == SeqsUpTo(S, n - 1)
         IN  shorter \cup {Append(q, x) : q \in shorter, x \in S}

\* the lines a store is made of: the keys with the token and client id the
\* client was constructed with, an empty line and a line of other text
StoreAlphabet ==
    {RefreshLine(r) : r \in InitialRefreshTokens} \cup {ClientLine(i) : i \in ClientIds}
        \cup {BlankLine, TextLine(1)}

\* what f.read().splitlines() can return: no file, or any few lines
ReadableStores == {NoFile} \cup SeqsUpTo(StoreAlphabet, MaxLines)

\* rotated refresh tokens handed to the method
RotatedTokens == {2, 3}

InitPersist ==
    /\ client_id \in ClientIds
    /\ refresh_token \in InitialRefreshTokens
    /\ env_path \in {None, 1}
    /\ store \in ReadableStores
    /\ access_token = None
    /\ access_expiry = 0
    /\ now = 0
    /\ pc = [c \in Callers |-> "idle"]
    /\ op = [c \in Callers |-> "none"]
    /\ attempt = [c \in Callers |-> 1]
    /\ why = [c \in Callers |-> "none"]
    /\ submitted = [c \in Callers |-> None]
    /\ req = [c \in Callers |-> NoReq]
    /\ outcome = [c \in Callers |-> "none"]
    /\ stats = [c \in Callers |-> NoStats]
    /\ granted = None
    /\ exchanges = 0
    /\ calls = 0
    /\ saved = NoSaves

\* Variant of the method that reaches its write and appends the token line
\* without looking for the one already there
SaveRotatedAppending(new_refresh) ==
    /\ saved.n < MaxSaves
    /\ refresh_token' = new_refresh
    /\ store' = IF env_path = None THEN store
                ELSE Append(IF store = NoFile THEN <<>> ELSE store, RefreshLine(new_refresh))
    /\ saved' = [n |-> saved.n + 1, args |-> Append(saved.args, new_refresh),
                 result |-> IF env_path = None THEN "returned" ELSE "written",
                 before |-> IF saved.n = 0 THEN store ELSE saved.before,
                 once |-> IF saved.n = 0 THEN store' ELSE saved.once]
    /\ UNCHANGED <<client_id, env_path, access_token, access_expiry, now, pc, op,
                   attempt, why, submitted, req, outcome, stats, granted,
                   exchanges, calls>>

\* _save_rotated_refresh_token(new_refresh), lines 55-81
SaveRotatedRefreshToken(new_refresh) ==
    LET result == IF env_path = None THEN "returned"       \* line 59
                  ELSE IF ~PathNameBound THEN "NameError"   \* line 60
                  ELSE "written"                            \* line 81
        after == IF result = "written"
                 THEN SavedStore(store, new_refresh, client_id)
                 ELSE store
    IN  /\ saved.n < MaxSaves
        /\ refresh_token' = new_refresh                     \* line 57
        /\ store' = after
        /\ saved' = [n |-> saved.n + 1, args |-> Append(saved.args, new_refresh),
                     result |-> result,
                     before |-> IF saved.n = 0 THEN store ELSE saved.before,
                     once |-> IF saved.n = 0 THEN after ELSE saved.once]
        /\ UNCHANGED <<client_id, env_path, access_token, access_expiry, now, pc, op,
                       attempt, why, submitted, req, outcome, stats, granted,
                       exchanges, calls>>

NextPersist == \E new_refresh \in RotatedTokens : SaveRotatedRefreshToken(new_refresh)

SpecPersist == InitPersist /\ [][NextPersist]_vars

----------------------------------------------------------------------------
(* Construction with any credentials, present or not *)

\* Variant of MissingCredentials that forgets the refresh token
MissingClientIdOnly(cid, rt) == cid = None

\* line 48: `not self.client_id or not self.refresh_token` (None and the
\* empty string are both 0 here)
MissingCredentials(cid, rt) == cid = None \/ rt = None

\* __init__, lines 38-52: with a credential missing it raises ValueError and
\* there is no client to call
InitConfig ==
    /\ client_id \in ClientIds \cup {None}
    /\ refresh_token \in InitialRefreshTokens \cup {None}
    /\ env_path \in {None, 1}
    /\ store \in InitialStores
    /\ env_path = None => store = NoFile
    /\ access_token = None
    /\ access_expiry = 0
    /\ now = 0
    /\ pc = [c \in Callers |->
               IF MissingCredentials(client_id, refresh_token) THEN "no_client" ELSE "idle"]
    /\ op = [c \in Callers |-> "none"]
    /\ attempt = [c \in Callers |-> 1]
    /\ why = [c \in Callers |-> "none"]
    /\ submitted = [c \in Callers |-> None]
    /\ req = [c \in Callers |-> NoReq]
    /\ outcome = [c \in Callers |->
                    IF MissingCredentials(client_id, refresh_token) THEN "ValueError" ELSE "none"]
    /\ stats = [c \in Callers |-> NoStats]
    /\ granted = None
    /\ exchanges = 0
    /\ calls = 0
    /\ saved = NoSaves

SpecConfig == InitConfig /\ [][Next]_vars

\* several threads share one client
NextConc == (\E c \in Callers : Step(c)) \/ Tick

SpecConc == Init /\ [][NextConc]_vars

----------------------------------------------------------------------------
(* Vocabulary of the properties *)

\* c runs _headers() in this step: it asks for a valid token
AsksForToken(c) == pc[c] \in {"idle", "retry_headers"} /\ pc'[c] # pc[c]

\* c sends a request to the token endpoint in this step
SendsExchange(c) == pc[c] # "token_wait" /\ pc'[c] = "token_wait"

StoreLines == IF store = NoFile THEN <<>> ELSE store

----------------------------------------------------------------------------
(* C1: every resource request in flight carries a bearer token that is not  *)
(* None, is the access token of the most recent 200 answer of the token     *)
(* endpoint, and was not expired by the client's own check (time >          *)
(* access_expiry) when its headers were built.                              *)
C1_BearerValid ==
    \A c \in Callers :
        pc[c] = "api_wait" =>
            /\ req[c].bearer # None
            /\ req[c].bearer = req[c].latest
            /\ ~req[c].expired

\* a re-sent or later request, after the clock has advanced and the token
\* has been replaced at least once
C1_Witness ==
    \E c \in Callers :
        /\ pc[c] = "api_wait"
        /\ calls = MaxCalls
        /\ now > 0
        /\ req[c].bearer >= 2

(* C2: fast path.  When a caller asks for a token while one is cached and   *)
(* the time is before its expiry, no request goes to the token endpoint,    *)
(* the cached token, its expiry, the refresh token and the store stay as    *)
(* they are, and the resource request leaves with the cached token; so a    *)
(* second token request right after the first adds no exchange.             *)
C2_FastPath ==
    [][\A c \in Callers :
          (AsksForToken(c) /\ access_token # None /\ now < access_expiry) =>
              /\ exchanges' = exchanges
              /\ ~SendsExchange(c)
              /\ UNCHANGED <<access_token, access_expiry, refresh_token, store>>
              /\ pc'[c] = "api_wait"
              /\ req'[c].bearer = access_token]_vars

\* two operations have asked for a token and one exchange was made in total
C2_Witness ==
    \E c \in Callers :
        /\ calls = 2
        /\ exchanges = 1
        /\ pc[c] = "api_wait"
        /\ stats[c].xch = 0
        /\ req[c].bearer = access_token
        /\ now < access_expiry

(* C3: a non-200 answer of the token endpoint raises RuntimeError to the    *)
(* caller and leaves access_token, access_expiry, refresh_token and the     *)
(* store as they were.                                                      *)
C3_FailedRefreshNoMutation ==
    [][\A c \in Callers : \A ans \in TokenAnswers :
          (ans.status # 200 /\ TokenResponse(c, ans)) =>
              /\ pc'[c] = "idle"
              /\ outcome'[c] = "RuntimeError"
              /\ UNCHANGED <<access_token, access_expiry, refresh_token, store>>]_vars

\* a refresh of a stale cached token has failed
C3_Witness ==
    \E c \in Callers :
        /\ pc[c] = "idle"
        /\ outcome[c] = "RuntimeError"
        /\ access_token # None
        /\ now > access_expiry
        /\ refresh_token > 1

(* C4: when several callers find the cached token stale or absent, at most  *)
(* one request to the token endpoint is in flight at a time, so no two      *)
(* callers submit the same refresh token.                                   *)
C4_OneExchangeInFlight ==
    \A c, d \in Callers :
        (pc[c] = "token_wait" /\ pc[d] = "token_wait") => c = d

(* C5: a caller that asks for a token while one is cached performs a        *)
(* refresh exchange exactly when the time is at or after access_expiry.     *)
C5_UsableIffStrictlyBefore ==
    [][\A c \in Callers :
          (AsksForToken(c) /\ access_token # None) =>
              (SendsExchange(c) <=> now >= access_expiry)]_vars

(* C6: a caller that asks for a token after access_expiry has passed sends  *)
(* one request to the token endpoint, and when the answer is 200 the token  *)
(* request returns the access token of that answer: it is cached and is     *)
(* the bearer of the resource request that follows.                         *)
C6_StaleRefreshReturnsNewToken ==
    [][\A c \in Callers : \A ans \in TokenAnswers :
          /\ (AsksForToken(c) /\ access_token # None /\ now > access_expiry) =>
                 (SendsExchange(c) /\ exchanges' = exchanges + 1)
          /\ (why[c] = "ensure" /\ ans.status = 200 /\ TokenResponse(c, ans)) =>
                 /\ access_token' = ans.access_token
                 /\ exchanges' = exchanges
                 /\ pc'[c] = "api_wait"
                 /\ req'[c].bearer = ans.access_token]_vars

(* C7: a 200 answer that carries a refresh token R' makes R' the in-memory  *)
(* refresh token and, when env_path is set, leaves a line                   *)
(* CC_REFRESH_TOKEN=R' in the store; every request to the token endpoint    *)
(* submits the in-memory refresh token.                                     *)
C7_RotationStoredAndUsed ==
    [][\A c \in Callers : \A ans \in TokenAnswers :
          /\ (ans.status = 200 /\ ans.refresh_token # None /\ TokenResponse(c, ans)) =>
                 /\ refresh_token' = ans.refresh_token
                 /\ env_path # None =>
                        \E k \in 1..Len(StoreLines') :
                            StoreLines'[k] = RefreshLine(ans.refresh_token)
          /\ SendsExchange(c) => submitted'[c] = refresh_token]_vars

(* C8: a 200 answer without a refresh_token field still succeeds: its       *)
(* access token is cached and returned, the in-memory refresh token keeps   *)
(* its value, _save_rotated_refresh_token is not called and the store is    *)
(* not written.                                                             *)
C8_NoRotationNoWrite ==
    [][\A c \in Callers : \A ans \in TokenAnswers :
          (ans.status = 200 /\ ans.refresh_token = None /\ TokenResponse(c, ans)) =>
              /\ access_token' = ans.access_token
              /\ refresh_token' = refresh_token
              /\ store' = store
              /\ stats'[c].saves = stats[c].saves
              /\ outcome'[c] = "running"
              /\ pc'[c] \in {"api_wait", "retry_headers"}
              /\ why[c] = "ensure" => req'[c].bearer = ans.access_token]_vars

\* with a store configured, a token was obtained and the refresh token is
\* still the one the client was constructed with
C8_Witness ==
    \E c \in Callers :
        /\ env_path # None
        /\ store # NoFile
        /\ pc[c] = "api_wait"
        /\ stats[c].xch >= 1
        /\ stats[c].saves = 0
        /\ req[c].bearer = access_token
        /\ access_token # None
        /\ refresh_token \in InitialRefreshTokens

(* C9: when the rotated refresh token does not reach the store, the refresh *)
(* and the operation that triggered it go on: no error is raised by the     *)
(* step that handles the 200 answer.                                        *)
C9_PersistFailureDoesNotFailCall ==
    [][\A c \in Callers : \A ans \in TokenAnswers :
          ( /\ ans.status = 200
            /\ ans.refresh_token # None
            /\ env_path # None
            /\ TokenResponse(c, ans)
            /\ ~(\E k \in 1..Len(StoreLines') :
                    StoreLines'[k] = RefreshLine(ans.refresh_token)) ) =>
              /\ outcome'[c] = "running"
              /\ pc'[c] \in {"api_wait", "retry_headers"}]_vars

(* C10: an operation sends at most two resource requests and makes at most  *)
(* one forced refresh; a 401 answer to the first request is followed by     *)
(* exactly one forced refresh exchange and, unless that exchange is         *)
(* rejected by the token endpoint, by exactly one re-send.                  *)
C10_OneForcedRefreshOneResend ==
    \A c \in Callers :
        /\ stats[c].sent <= 2
        /\ stats[c].forced <= 1
        /\ stats[c].got401 >= 1 => stats[c].forced = 1
        /\ (pc[c] = "idle" /\ stats[c].got401 >= 1 /\ outcome[c] # "RuntimeError") =>
               stats[c].sent = 2

----------------------------------------------------------------------------
(* Vocabulary of the store properties *)

LinesOf(file) == IF file = NoFile THEN <<>> ELSE file
HasKey(lines, key) == \E k \in 1..Len(lines) : lines[k].key = key
CountKey(lines, key) == Cardinality({k \in 1..Len(lines) : lines[k].key = key})
IsUnrecognized(line) == line.key \notin {"CC_REFRESH_TOKEN=", "CC_CLIENT_ID="}
Unrecognized(lines) == SelectSeq(lines, IsUnrecognized)

\* the method was called once, with a store configured
PersistedOnce == saved.n = 1 /\ env_path # None

(* C11: from a store with exactly one CC_CLIENT_ID line, that of the client, *)
(* and exactly one CC_REFRESH_TOKEN line, persisting a token leaves the      *)
(* store with the same lines in the same order, except that the             *)
(* CC_REFRESH_TOKEN line carries the new token; no key appears twice.        *)
C11_RewriteKeepsOtherLines ==
    LET before == LinesOf(saved.before)
        after == LinesOf(store)
    IN  ( /\ PersistedOnce
          /\ saved.before # NoFile
          /\ CountKey(before, "CC_REFRESH_TOKEN=") = 1
          /\ CountKey(before, "CC_CLIENT_ID=") = 1 ) =>
            /\ store # NoFile
            /\ Len(after) = Len(before)
            /\ \A k \in 1..Len(before) :
                   after[k] = IF before[k].key = "CC_REFRESH_TOKEN="
                              THEN RefreshLine(saved.args[1])
                              ELSE before[k]

(* C12: from any store, also an absent or empty one, persisting a token      *)
(* replaces the CC_REFRESH_TOKEN line if there is one and appends one        *)
(* otherwise, appends a CC_CLIENT_ID line if there is none, keeps the        *)
(* unrecognized lines as they are and in order, and leaves no                *)
(* CC_REFRESH_TOKEN line with another value than the new token.              *)
C12_RewriteAnyStore ==
    LET before == LinesOf(saved.before)
        after == LinesOf(store)
        added == (IF HasKey(before, "CC_REFRESH_TOKEN=") THEN 0 ELSE 1)
                 + (IF HasKey(before, "CC_CLIENT_ID=") THEN 0 ELSE 1)
    IN  PersistedOnce =>
            /\ store # NoFile
            /\ Len(after) = Len(before) + added
            /\ HasKey(after, "CC_REFRESH_TOKEN=")
            /\ HasKey(after, "CC_CLIENT_ID=")
            /\ Unrecognized(after) = Unrecognized(before)
            /\ \A k \in 1..Len(after) :
                   after[k].key = "CC_REFRESH_TOKEN=" => after[k].val = saved.args[1]

----------------------------------------------------------------------------
(* C13: a 200 answer handled at time t sets access_expiry to t plus 0.9     *)
(* times the declared lifetime, the lifetime being 3600 s when expires_in   *)
(* is absent (times in tenths of a second: 9 tenths per declared second).   *)
C13_ExpiryIsNineTenthsOfLifetime ==
    [][\A c \in Callers : \A ans \in TokenAnswers :
          (ans.status = 200 /\ TokenResponse(c, ans)) =>
              LET seconds == IF ans.expires_in = None THEN 3600 ELSE ans.expires_in
              IN  10 * (access_expiry' - now) = 9 * (10 * seconds)]_vars

\* a token with expires_in = 1800 was cached after the clock had advanced:
\* it expires 1620 s later
C13_Witness ==
    /\ access_token # None
    /\ now > 0
    /\ access_expiry = now + 16200

(* C14: a client constructed without a client id or without a refresh      *)
(* token fails with ValueError and never sends anything; every request to   *)
(* the token endpoint carries a client id and a refresh token that are not  *)
(* empty, also after rotations.                                             *)
C14_NoExchangeWithoutCredentials ==
    /\ (client_id = None \/ refresh_token = None) =>
           /\ exchanges = 0
           /\ \A c \in Callers : pc[c] = "no_client" /\ outcome[c] = "ValueError"
    /\ \A c \in Callers :
           pc[c] = "token_wait" => (submitted[c] # None /\ client_id # None)

\* an exchange that submits a rotated refresh token is in flight
C14_Witness ==
    \E c \in Callers :
        /\ pc[c] = "token_wait"
        /\ submitted[c] \notin InitialRefreshTokens
        /\ submitted[c] = refresh_token

(* C15: a failed exchange is not retried: no step sends more than one      *)
(* request to the token endpoint, and a non-200 answer ends the operation   *)
(* at once with RuntimeError, without another exchange.                     *)
C15_FailedExchangeNotRetried ==
    [][\A c \in Callers :
          /\ exchanges' <= exchanges + 1
          /\ \A ans \in TokenAnswers :
                (ans.status # 200 /\ TokenResponse(c, ans)) =>
                    /\ pc'[c] = "idle"
                    /\ op'[c] = "none"
                    /\ outcome'[c] = "RuntimeError"
                    /\ exchanges' = exchanges
                    /\ stats'[c].xch = stats[c].xch]_vars

\* an operation has ended with the error of its only exchange
C15_Witness ==
    \E c \in Callers :
        /\ pc[c] = "idle"
        /\ outcome[c] = "RuntimeError"
        /\ stats[c].xch = 1
        /\ stats[c].sent = 0

\* the three kinds of state of the cached access token, by the client's own
\* test of line 107
NO_TOKEN == access_token = None
STALE == access_token # None /\ now > access_expiry
VALID == access_token # None /\ ~(now > access_expiry)

ExchangeSucceeds == \E c \in Callers : \E ans \in TokenAnswers :
                        ans.status = 200 /\ TokenResponse(c, ans)

(* C16: the client starts without a token; a cached access token is never  *)
(* cleared; the token and its expiry change, and a state becomes VALID,     *)
(* only by a successful exchange, which always leaves the state VALID; and  *)
(* VALID turns into STALE only because time passes.                         *)
C16_TokenLifecycle ==
    /\ NO_TOKEN
    /\ [][/\ access_token # None => access_token' # None
          /\ (access_token' # access_token \/ access_expiry' # access_expiry
                  \/ (~VALID /\ VALID')) => ExchangeSucceeds
          /\ ExchangeSucceeds => VALID'
          /\ (VALID /\ ~VALID') => (STALE' /\ now' > now /\ access_token' = access_token)]_vars

\* a refresh of a stale token has failed and the stale token is still cached
C16_Witness ==
    \E c \in Callers :
        /\ outcome[c] = "RuntimeError"
        /\ pc[c] = "idle"
        /\ STALE

(* C17: as long as no exchange succeeds, a client that is in NO_TOKEN or    *)
(* STALE stays out of VALID and keeps its refresh token in memory and in    *)
(* the store; every request for a token sends an exchange with that         *)
(* refresh token, and every answer ends the operation with RuntimeError.    *)
C17_RevokedTokenIsTerminal ==
    [][\A c \in Callers :
          (~VALID /\ ~ExchangeSucceeds) =>
              /\ ~VALID'
              /\ refresh_token' = refresh_token
              /\ store' = store
              /\ AsksForToken(c) =>
                     (SendsExchange(c) /\ submitted'[c] = refresh_token)
              /\ (\E ans \in TokenAnswers : TokenResponse(c, ans)) =>
                     (pc'[c] = "idle" /\ outcome'[c] = "RuntimeError")]_vars

\* two exchanges of the same refresh token were rejected one after the other
C17_Witness ==
    \E c \in Callers :
        /\ exchanges = 2
        /\ granted = None
        /\ NO_TOKEN
        /\ pc[c] = "idle"
        /\ outcome[c] = "RuntimeError"
        /\ refresh_token \in InitialRefreshTokens

\* the refresh-token values on the CC_REFRESH_TOKEN lines of a store
StoredRefreshTokens(file) ==
    {LinesOf(file)[k].val : k \in {j \in 1..Len(LinesOf(file)) :
                                      LinesOf(file)[j].key = "CC_REFRESH_TOKEN="}}

(* C18: when a 200 answer rotates the refresh token and the store is not    *)
(* written, the cached access token and expiry are those of the answer, the *)
(* refresh token in memory is the rotated one and the store is as before;   *)
(* every exchange submits the refresh token that is in memory.              *)
C18_MemoryCorrectWhenStoreNotWritten ==
    [][\A c \in Callers :
          /\ \A ans \in TokenAnswers :
                (/\ ans.status = 200
                 /\ ans.refresh_token # None
                 /\ env_path # None
                 /\ TokenResponse(c, ans)
                 /\ ans.refresh_token \notin StoredRefreshTokens(store')) =>
                    /\ access_token' = ans.access_token
                    /\ 10 * (access_expiry' - now) =
                          9 * 10 * (IF ans.expires_in = None THEN 3600 ELSE ans.expires_in)
                    /\ refresh_token' = ans.refresh_token
                    /\ store' = store
          /\ SendsExchange(c) =>
                (submitted'[c] = refresh_token /\ refresh_token' = refresh_token)]_vars

\* an exchange submits a rotated refresh token while the store still holds
\* the one the process started with
C18_Witness ==
    \E c \in Callers :
        /\ pc[c] = "token_wait"
        /\ env_path # None
        /\ submitted[c] \notin InitialRefreshTokens
        /\ StoredRefreshTokens(store) \subseteq InitialRefreshTokens
        /\ StoredRefreshTokens(store) # {}

====
